---- MODULE Spec2Model ----
(***************************************************************************)
(* A model of src/ML/app.py: the /validate endpoint of the LLM content     *)
(* validator, its response-text extractor, its JSON recovery function and  *)
(* its decision sanitizer.                                                 *)
(*                                                                         *)
(* Text is a sequence of characters, each character a one-character        *)
(* string; the few control characters TLA+ cannot write are the atoms      *)
(* "NUL", "SOH", "BEL", "BS", "VT"; the backtick is the atom "TICK", and   *)
(* "UCH" stands for a non-ASCII character produced by a hex escape.        *)
(***************************************************************************)
EXTENDS Integers, Sequences, FiniteSets, TLC

\* ------------------------------------------------------------------ text

QUOTE == "\""
BSL == "\\"
\* the backtick character, which a TLA+ string cannot hold
TICK == "TICK"

\* code points below 0x20, which json.loads (strict) rejects inside a string
CtlChars == {"\t", "\n", "\r", "\f", "NUL", "SOH", "BEL", "BS", "VT"}

\* what str.strip() and the regex class \s take for white space
PyWs == {" ", "\t", "\n", "\r", "\f", "VT"}

\* json.decoder.WHITESPACE
JsonWs == {" ", "\t", "\n", "\r"}

Digits == {"0", "1"}

HexDigits == {"0", "1", "a", "b", "c", "d", "e", "f", "A", "B", "C", "D", "E", "F"}

SetMin(S) == CHOOSE x \in S : \A y \in S : x <= y

\* s[a..b], empty when the range is
Slice(s, a, b) == IF a > b THEN <<>> ELSE SubSeq(s, a, b)

\* s[:n]
Take(s, n) == Slice(s, 1, IF Len(s) < n THEN Len(s) ELSE n)

MatchAt(s, pat, i) == i >= 1 /\ i + Len(pat) - 1 <= Len(s) /\ SubSeq(s, i, i + Len(pat) - 1) = pat

\* the first index >= from where pat occurs in s, 0 when there is none
Find(s, pat, from) ==
    LET hits == {i \in from..Len(s) : s[i] = pat[1] /\ MatchAt(s, pat, i)}
    IN IF hits = {} THEN 0 ELSE SetMin(hits)

\* pat in s
Contains(s, pat) == Find(s, pat, 1) # 0

\* s.strip()
Strip(s) ==
    IF \A i \in 1..Len(s) : s[i] \in PyWs THEN <<>>
    ELSE SubSeq(s,
                CHOOSE i \in 1..Len(s) : s[i] \notin PyWs /\ \A j \in 1..(i - 1) : s[j] \in PyWs,
                CHOOSE i \in 1..Len(s) : s[i] \notin PyWs /\ \A j \in (i + 1)..Len(s) : s[j] \in PyWs)

FENCE == <<TICK, TICK, TICK>>

JSONTAG == <<"j", "s", "o", "n">>

\* fence_re, the search for a fenced block (optionally tagged json): the leftmost opening
\* fence that has a closing fence after it; group(1) runs to the first
\* closing fence.  [found, inner] with inner = group(1).strip()
FenceSearch(s) ==
    LET open == Find(s, FENCE, 1)
        body == IF MatchAt(s, JSONTAG, open + 3) THEN open + 7 ELSE open + 3
        close == IF open = 0 THEN 0 ELSE Find(s, FENCE, body)
    IN IF open = 0 \/ close = 0
       THEN [found |-> FALSE, inner |-> <<>>]
       ELSE [found |-> TRUE, inner |-> Strip(Slice(s, body, close - 1))]

\* chr() of the octal escapes the digits of the model can spell
ChrOct(code) ==
    CASE code = 0 -> "NUL"
      [] code = 1 -> "SOH"
      [] code = 8 -> "BS"
      [] code = 9 -> "\t"
      [] code = 64 -> "@"
      [] code = 65 -> "A"
      [] code = 72 -> "H"
      [] code = 73 -> "I"
      [] OTHER -> "UCH"

DigitVal(c) == IF c = "1" THEN 1 ELSE 0

\* the number of octal digits (at most 3) starting at s[i]
OctRun(s, i) ==
    IF i + 2 <= Len(s) /\ s[i] \in Digits /\ s[i + 1] \in Digits /\ s[i + 2] \in Digits THEN 3
    ELSE IF i + 1 <= Len(s) /\ s[i] \in Digits /\ s[i + 1] \in Digits THEN 2
    ELSE 1

OctVal(s, i, n) ==
    IF n = 3 THEN 64 * DigitVal(s[i]) + 8 * DigitVal(s[i + 1]) + DigitVal(s[i + 2])
    ELSE IF n = 2 THEN 8 * DigitVal(s[i]) + DigitVal(s[i + 1])
    ELSE DigitVal(s[i])

AllHex(s, a, b) == b <= Len(s) /\ \A k \in a..b : s[k] \in HexDigits

SimpleEscapes == {QUOTE, BSL, "'", "n", "t", "r", "f", "a", "b", "v"}

EscapeChar(c) ==
    CASE c = "n" -> "\n"
      [] c = "t" -> "\t"
      [] c = "r" -> "\r"
      [] c = "f" -> "\f"
      [] c = "a" -> "BEL"
      [] c = "b" -> "BS"
      [] c = "v" -> "VT"
      [] OTHER -> c

\* s.encode('utf-8').decode('unicode_escape') from index i on, acc decoded so
\* far: [ok, s]; ok = FALSE is the UnicodeDecodeError of a truncated escape.
\* An unknown escape keeps its backslash; \N{...} is taken as malformed.
RECURSIVE UnicodeEscapeFrom(_, _, _)
UnicodeEscapeFrom(s, i, acc) ==
    IF i > Len(s) THEN [ok |-> TRUE, s |-> acc]
    ELSE IF s[i] # BSL THEN UnicodeEscapeFrom(s, i + 1, Append(acc, s[i]))
    ELSE IF i = Len(s) THEN [ok |-> FALSE, s |-> <<>>]
    ELSE LET c == s[i + 1] IN
         IF c \in SimpleEscapes THEN UnicodeEscapeFrom(s, i + 2, Append(acc, EscapeChar(c)))
         ELSE IF c = "\n" THEN UnicodeEscapeFrom(s, i + 2, acc)
         ELSE IF c \in Digits
              THEN LET n == OctRun(s, i + 1)
                   IN UnicodeEscapeFrom(s, i + 1 + n, Append(acc, ChrOct(OctVal(s, i + 1, n))))
         ELSE IF c = "x"
              THEN IF AllHex(s, i + 2, i + 3)
                   THEN UnicodeEscapeFrom(s, i + 4, Append(acc, "UCH"))
                   ELSE [ok |-> FALSE, s |-> <<>>]
         ELSE IF c = "u"
              THEN IF AllHex(s, i + 2, i + 5)
                   THEN UnicodeEscapeFrom(s, i + 6, Append(acc, "UCH"))
                   ELSE [ok |-> FALSE, s |-> <<>>]
         ELSE IF c \in {"U", "N"} THEN [ok |-> FALSE, s |-> <<>>]
         ELSE UnicodeEscapeFrom(s, i + 2, Append(Append(acc, BSL), c))

UnicodeEscape(s) == UnicodeEscapeFrom(s, 1, <<>>)

\* the character references html.unescape resolves among the texts of the model,
\* each with or without its closing semicolon
Entities ==
    << <<<<"q", "u", "o", "t">>, QUOTE>>,
       <<<<"a", "m", "p">>, "&">>,
       <<<<"l", "t">>, "<">>,
       <<<<"g", "t">>, ">">> >>

\* html.unescape(s) from index i on
RECURSIVE HtmlUnescapeFrom(_, _, _)
HtmlUnescapeFrom(s, i, acc) ==
    IF i > Len(s) THEN acc
    ELSE IF s[i] # "&" THEN HtmlUnescapeFrom(s, i + 1, Append(acc, s[i]))
    ELSE LET hit == {e \in 1..Len(Entities) : MatchAt(s, Entities[e][1], i + 1)}
         IN IF hit = {} THEN HtmlUnescapeFrom(s, i + 1, Append(acc, s[i]))
            ELSE LET e == SetMin(hit)
                     after == i + 1 + Len(Entities[e][1])
                     next == IF after <= Len(s) /\ s[after] = ";" THEN after + 1 ELSE after
                 IN HtmlUnescapeFrom(s, next, Append(acc, Entities[e][2]))

HtmlUnescape(s) == HtmlUnescapeFrom(s, 1, <<>>)

\* ------------------------------------------------------------------ JSON
\* A JSON value is a record of one shape: t is its type, s the characters of
\* a string or the lexeme of a number, a the elements of an array, o the
\* members of an object as <<key, value>> pairs in insertion order, b a boolean.

JNull == [t |-> "null", s |-> <<>>, a |-> <<>>, o |-> <<>>, b |-> FALSE]

JBool(v) == [t |-> "bool", s |-> <<>>, a |-> <<>>, o |-> <<>>, b |-> v]

JNum(lexeme) == [t |-> "num", s |-> lexeme, a |-> <<>>, o |-> <<>>, b |-> FALSE]

JStr(chars) == [t |-> "str", s |-> chars, a |-> <<>>, o |-> <<>>, b |-> FALSE]

JArr(elems) == [t |-> "arr", s |-> <<>>, a |-> elems, o |-> <<>>, b |-> FALSE]

JObj(members) == [t |-> "obj", s |-> <<>>, a |-> <<>>, o |-> members, b |-> FALSE]

\* dict[key] = value: a repeated key keeps its place and takes the last value
DictSet(members, key, value) ==
    LET at == {k \in 1..Len(members) : members[k][1] = key}
    IN IF at = {} THEN Append(members, <<key, value>>)
       ELSE [members EXCEPT ![SetMin(at)] = <<key, value>>]

HasKey(obj, key) == \E k \in 1..Len(obj.o) : obj.o[k][1] = key

\* obj.get(key, default)
DictGet(obj, key, default) ==
    IF HasKey(obj, key)
    THEN obj.o[CHOOSE k \in 1..Len(obj.o) : obj.o[k][1] = key][2]
    ELSE default

\* bool(v)
Truthy(v) ==
    CASE v.t = "null" -> FALSE
      [] v.t = "bool" -> v.b
      [] v.t = "num" -> v.s[1] # "0"
      [] v.t = "str" -> v.s # <<>>
      [] v.t = "arr" -> v.a # <<>>
      [] v.t = "obj" -> v.o # <<>>

ParseFail == [ok |-> FALSE, v |-> JNull, i |-> 0]

ParseOk(value, next) == [ok |-> TRUE, v |-> value, i |-> next]

\* WHITESPACE.match(s, i).end(): the first index >= i that holds no JSON white space
SkipWs(s, i) ==
    LET stop == {j \in i..Len(s) : s[j] \notin JsonWs}
    IN IF stop = {} THEN Len(s) + 1 ELSE SetMin(stop)

\* the end of the run of digits starting at s[i] (i - 1 when there is none)
DigitsEnd(s, i) ==
    LET stop == {j \in i..Len(s) : s[j] \notin Digits}
    IN IF stop = {} THEN Len(s) ELSE SetMin(stop) - 1

\* NUMBER_RE at s[i], a digit: (0|[1-9]\d*) and an optional exponent
\* (the texts of the model hold no sign and no decimal point)
ParseNumber(s, i) ==
    LET intEnd == IF s[i] = "0" THEN i ELSE DigitsEnd(s, i)
        expEnd == IF intEnd + 1 <= Len(s) /\ s[intEnd + 1] \in {"e", "E"}
                  THEN DigitsEnd(s, intEnd + 2) ELSE 0
        end == IF expEnd >= intEnd + 2 THEN expEnd ELSE intEnd
    IN ParseOk(JNum(SubSeq(s, i, end)), end + 1)

JsonStringEscapes == {QUOTE, BSL, "/", "b", "f", "n", "r", "t"}

\* py_scanstring (strict) from index j on, the opening quote consumed
RECURSIVE ScanString(_, _, _)
ScanString(s, j, acc) ==
    IF j > Len(s) THEN ParseFail
    ELSE IF s[j] = QUOTE THEN ParseOk(JStr(acc), j + 1)
    ELSE IF s[j] \in CtlChars THEN ParseFail
    ELSE IF s[j] # BSL THEN ScanString(s, j + 1, Append(acc, s[j]))
    ELSE IF j = Len(s) THEN ParseFail
    ELSE IF s[j + 1] \in JsonStringEscapes
         THEN ScanString(s, j + 2, Append(acc, IF s[j + 1] = "/" THEN "/" ELSE EscapeChar(s[j + 1])))
    ELSE IF s[j + 1] = "u" /\ AllHex(s, j + 2, j + 5)
         THEN ScanString(s, j + 6, Append(acc, "UCH"))
    ELSE ParseFail

Literals ==
    << <<<<"n", "u", "l", "l">>, JNull>>,
       <<<<"t", "r", "u", "e">>, JBool(TRUE)>>,
       <<<<"f", "a", "l", "s", "e">>, JBool(FALSE)>>,
       <<<<"N", "a", "N">>, JNum(<<"N", "a", "N">>)>>,
       <<<<"I", "n", "f", "i", "n", "i", "t", "y">>, JNum(<<"I", "n", "f", "i", "n", "i", "t", "y">>)>> >>

\* scan_once(s, i): one JSON value starting exactly at s[i]
RECURSIVE ScanOnce(_, _), ScanMembers(_, _, _), ScanElements(_, _, _)
ScanOnce(s, i) ==
    IF i > Len(s) THEN ParseFail
    ELSE IF s[i] = QUOTE THEN ScanString(s, i + 1, <<>>)
    ELSE IF s[i] = "{"
         THEN LET j == SkipWs(s, i + 1)
              IN IF j <= Len(s) /\ s[j] = "}" THEN ParseOk(JObj(<<>>), j + 1)
                 ELSE ScanMembers(s, j, <<>>)
    ELSE IF s[i] = "["
         THEN LET j == SkipWs(s, i + 1)
              IN IF j <= Len(s) /\ s[j] = "]" THEN ParseOk(JArr(<<>>), j + 1)
                 ELSE ScanElements(s, j, <<>>)
    ELSE IF s[i] \in Digits THEN ParseNumber(s, i)
    ELSE LET hit == {l \in 1..Len(Literals) : MatchAt(s, Literals[l][1], i)}
         IN IF hit = {} THEN ParseFail
            ELSE LET l == SetMin(hit) IN ParseOk(Literals[l][2], i + Len(Literals[l][1]))

\* JSONObject from the member whose key should start at s[i]
ScanMembers(s, i, members) ==
    IF i > Len(s) \/ s[i] # QUOTE THEN ParseFail
    ELSE LET key == ScanString(s, i + 1, <<>>) IN
         IF ~key.ok THEN ParseFail
         ELSE LET colon == SkipWs(s, key.i) IN
              IF colon > Len(s) \/ s[colon] # ":" THEN ParseFail
              ELSE LET val == ScanOnce(s, SkipWs(s, colon + 1)) IN
                   IF ~val.ok THEN ParseFail
                   ELSE LET now == DictSet(members, key.v.s, val.v)
                            sep == SkipWs(s, val.i)
                        IN IF sep > Len(s) THEN ParseFail
                           ELSE IF s[sep] = "}" THEN ParseOk(JObj(now), sep + 1)
                           ELSE IF s[sep] = "," THEN ScanMembers(s, SkipWs(s, sep + 1), now)
                           ELSE ParseFail

\* JSONArray from the element that should start at s[i]
ScanElements(s, i, elems) ==
    LET val == ScanOnce(s, i) IN
    IF ~val.ok THEN ParseFail
    ELSE LET now == Append(elems, val.v)
             sep == SkipWs(s, val.i)
         IN IF sep > Len(s) THEN ParseFail
            ELSE IF s[sep] = "]" THEN ParseOk(JArr(now), sep + 1)
            ELSE IF s[sep] = "," THEN ScanElements(s, SkipWs(s, sep + 1), now)
            ELSE ParseFail

\* json.loads(s): [ok, v]; ok = FALSE is the JSONDecodeError
json_loads(s) ==
    LET r == ScanOnce(s, SkipWs(s, 1))
    IN IF r.ok /\ SkipWs(s, r.i) = Len(s) + 1
       THEN [ok |-> TRUE, v |-> r.v]
       ELSE [ok |-> FALSE, v |-> JNull]

\* ------------------------------------------------------------- recovery

\* the test that opens stage 2: r'\"' in s or r'\\n' in s or r'\\\"' in s
LooksEscaped(s) ==
    \/ Contains(s, <<BSL, QUOTE>>)
    \/ Contains(s, <<BSL, BSL, "n">>)
    \/ Contains(s, <<BSL, BSL, BSL, QUOTE>>)

\* stage 1 of clean_model_text_and_extract_json: strip, then keep the inside
\* of the first fenced block when there is one
FenceStage(text) ==
    LET s == Strip(text)
        m == FenceSearch(s)
    IN IF m.found THEN m.inner ELSE s

\* stage 2: one unescape pass when the text looks escaped, the surrounding
\* quotes trimmed; the text is kept as it was when the decoding raises
EscapeStage(s) ==
    IF ~LooksEscaped(s) THEN s
    ELSE LET u == UnicodeEscape(s) IN
         IF ~u.ok THEN s
         ELSE IF Len(u.s) >= 1 /\ u.s[1] = QUOTE /\ u.s[Len(u.s)] = QUOTE
              THEN Slice(u.s, 2, Len(u.s) - 1)
              ELSE u.s

\* the text stages 1 and 2 hand to the parser
Normalized(text) == EscapeStage(FenceStage(text))

\* re.search(r"(\{(?:[\s\S]*?)\})", s): from the first opening brace to the
\* first closing brace after it. [found, candidate]
BraceSearch(s) ==
    LET open == Find(s, <<"{">>, 1)
        close == IF open = 0 THEN 0 ELSE Find(s, <<"}">>, open + 1)
    IN IF open = 0 \/ close = 0
       THEN [found |-> FALSE, candidate |-> <<>>]
       ELSE [found |-> TRUE, candidate |-> SubSeq(s, open, close)]

Recovered(value) == [ok |-> TRUE, v |-> value, err |-> "none"]

RecoveryError(why) == [ok |-> FALSE, v |-> JNull, err |-> why]

\* stage 4: the candidate is unescaped (kept when that raises) and parsed,
\* then parsed again after html.unescape
BraceStage(s) ==
    LET m == BraceSearch(s) IN
    IF ~m.found THEN RecoveryError("Unable to extract JSON object from model output")
    ELSE LET u == UnicodeEscape(m.candidate)
             candidate_clean == IF u.ok THEN u.s ELSE m.candidate
             first == json_loads(candidate_clean)
             second == json_loads(HtmlUnescape(candidate_clean))
         IN IF first.ok THEN Recovered(first.v)
            ELSE IF second.ok THEN Recovered(second.v)
            ELSE RecoveryError("Failed to parse JSON candidate")

\* stages 3 and 4 on the normalized text
ParseStage(s) ==
    LET direct == json_loads(s)
    IN IF direct.ok THEN Recovered(direct.v) ELSE BraceStage(s)

\* clean_model_text_and_extract_json(text), text a string: [ok, v, err];
\* ok = FALSE is the ValueError
clean_model_text_and_extract_json(text) ==
    IF text = <<>> THEN RecoveryError("Empty or non-string model output")
    ELSE ParseStage(Normalized(text))

\* ------------------------------------------------------------ extractor
\* A value met while probing the opaque response: k = "none" is None, an absent
\* attribute or any other falsy non-string; "str" a string of characters s;
\* "obj" a truthy object that is no string and no list, s its str();
\* "list" a list or tuple of items; "raises" an access that raises.

NoValue == [k |-> "none", s |-> <<>>, items |-> <<>>]

StrValue(chars) == [k |-> "str", s |-> chars, items |-> <<>>]

ObjValue(rendering) == [k |-> "obj", s |-> rendering, items |-> <<>>]

ListValue(elems) == [k |-> "list", s |-> <<>>, items |-> elems]

Raises == [k |-> "raises", s |-> <<>>, items |-> <<>>]

\* bool(v) of a probed value
IsTruthy(v) ==
    \/ v.k = "obj"
    \/ v.k = "str" /\ v.s # <<>>
    \/ v.k = "list" /\ v.items # <<>>

\* a or b
OrElse(a, b) == IF IsTruthy(a) THEN a ELSE b

\* isinstance(v, str) and v.strip()
IsNonBlankStr(v) == v.k = "str" /\ Strip(v.s) # <<>>

\* what one strategy did: it returned out, it raised, or it fell through
Returned(out) == [did |-> "return", out |-> out]

Raised == [did |-> "raise", out |-> NoValue]

FellThrough == [did |-> "pass", out |-> NoValue]

\* strategy 1: the text of the first candidate
Strategy1(response) ==
    LET cands == response.candidates IN
    IF cands.k = "raises" THEN Raised
    ELSE IF cands.k = "list" /\ Len(cands.items) > 0
         THEN LET txt == cands.items[1].text IN
              IF txt.k = "raises" THEN Raised
              ELSE IF IsTruthy(txt) THEN Returned(txt)
              ELSE FellThrough
    ELSE FellThrough

PartKeys == <<"text", "plain_text", "content">>

\* the text one part of a content list yields: NoValue when it has none,
\* Raises when probing it raises
PartText(part) ==
    IF part.isdict
    THEN LET hit == {k \in 1..Len(PartKeys) : IsNonBlankStr(part[PartKeys[k]])}
         IN IF hit = {} THEN NoValue ELSE part[PartKeys[SetMin(hit)]]
    ELSE IF part.text.k = "raises" THEN Raises
    ELSE LET txt == OrElse(part.text, part.plain_text) IN
         IF txt.k = "raises" THEN Raises
         ELSE IF IsTruthy(txt) /\ IsNonBlankStr(txt) THEN txt
         ELSE NoValue

\* the loop over the parts of a content list, from part i on
RECURSIVE ScanParts(_, _)
ScanParts(parts, i) ==
    IF i > Len(parts) THEN NoValue
    ELSE LET t == PartText(parts[i]) IN
         IF t.k = "none" THEN ScanParts(parts, i + 1) ELSE t

\* strategy 2: the first text-like part of the first output, else str(out0)
Strategy2(response) ==
    LET outputs == response.outputs IN
    IF outputs.k = "raises" THEN Raised
    ELSE IF outputs.k = "list" /\ Len(outputs.items) > 0
         THEN LET out0 == outputs.items[1]
                  content == out0.content
                  found == IF content.k = "list" /\ content.items # <<>>
                           THEN ScanParts(content.items, 1) ELSE NoValue
              IN IF content.k = "raises" \/ found.k = "raises" THEN Raised
                 ELSE IF found.k # "none" THEN Returned(found)
                 ELSE IF out0.str.k = "raises" THEN Raised
                 ELSE Returned(out0.str)
    ELSE FellThrough

\* strategy 3: str() of response.response or response.output
Strategy3(response) ==
    IF response.response.k = "raises" THEN Raised
    ELSE IF ~IsTruthy(response.response) /\ response.output.k = "raises" THEN Raised
    ELSE LET maybe == OrElse(response.response, response.output) IN
         IF IsTruthy(maybe) /\ maybe.s # <<>> THEN Returned(StrValue(maybe.s))
         ELSE FellThrough

\* strategy 4: str(response)
Strategy4(response) == Returned(response.str)

\* extract_text_from_response(response)
extract_text_from_response(response) ==
    IF Strategy1(response).did = "return" THEN Strategy1(response).out
    ELSE IF Strategy2(response).did = "return" THEN Strategy2(response).out
    ELSE IF Strategy3(response).did = "return" THEN Strategy3(response).out
    ELSE Strategy4(response).out

\* ------------------------------------------------------------ sanitizer

K_allowed == <<"a", "l", "l", "o", "w", "e", "d">>

K_reason == <<"r", "e", "a", "s", "o", "n">>

K_flags == <<"f", "l", "a", "g", "s">>

K_suggestedTags == <<"s", "u", "g", "g", "e", "s", "t", "e", "d", "T", "a", "g", "s">>

K_inappropriate == <<"i", "n", "a", "p", "p", "r", "o", "p", "r", "i", "a", "t", "e">>

K_spam == <<"s", "p", "a", "m">>

K_advertisement == <<"a", "d", "v", "e", "r", "t", "i", "s", "e", "m", "e", "n", "t">>

K_mismatch == <<"m", "i", "s", "m", "a", "t", "c", "h">>

\* the keys of the flags dict literal, in its order
FlagKeys == <<K_inappropriate, K_spam, K_advertisement, K_mismatch>>

T_Wifi == <<"W", "i", "f", "i">>

T_Other == <<"O", "t", "h", "e", "r">>

T_Lab == <<"L", "a", "b">>

DEFAULT_TAGS ==
    << <<"W", "i", "f", "i">>,
       <<"N", "e", "t", "w", "o", "r", "k">>,
       <<"C", "l", "e", "a", "n", "l", "i", "n", "e", "s", "s">>,
       <<"P", "l", "u", "m", "b", "i", "n", "g">>,
       <<"E", "l", "e", "c", "t", "r", "i", "c", "a", "l">>,
       <<"L", "i", "g", "h", "t", "i", "n", "g">>,
       <<"S", "a", "f", "e", "t", "y">>,
       <<"S", "e", "c", "u", "r", "i", "t", "y">>,
       <<"M", "a", "i", "n", "t", "e", "n", "a", "n", "c", "e">>,
       <<"S", "a", "n", "i", "t", "a", "t", "i", "o", "n">>,
       <<"S", "t", "r", "u", "c", "t", "u", "r", "a", "l">>,
       <<"A", "c", "c", "e", "s", "s", "i", "b", "i", "l", "i", "t", "y">>,
       <<"H", "V", "A", "C">>,
       <<"P", "e", "s", "t", " ", "C", "o", "n", "t", "r", "o", "l">>,
       <<"G", "a", "r", "d", "e", "n", "i", "n", "g">>,
       <<"T", "r", "a", "n", "s", "p", "o", "r", "t">>,
       <<"S", "i", "g", "n", "a", "g", "e">>,
       <<"F", "i", "r", "e", " ", "S", "a", "f", "e", "t", "y">>,
       <<"O", "t", "h", "e", "r">> >>

\* the tag lists the process can start with: the built-in list (tags.json
\* missing or malformed) or the list a tags.json holds
TagLists == {DEFAULT_TAGS, <<T_Lab, T_Other>>}

Range(f) == {f[i] : i \in DOMAIN f}

\* [x for x in list if x in kept], from element i on
RECURSIVE Filter(_, _, _)
Filter(list, kept, i) ==
    IF i > Len(list) THEN <<>>
    ELSE IF list[i] \in kept THEN <<list[i]>> \o Filter(list, kept, i + 1)
    ELSE Filter(list, kept, i + 1)

\* req.allowedTags or PREDEFINED_TAGS: None and the empty list are falsy
RequestedTags(allowedTags, predefined) ==
    IF allowedTags.given /\ allowedTags.tags # <<>> THEN allowedTags.tags ELSE predefined

\* the normalization without its fallback: an empty intersection stays empty
EffectiveTagsNoFallback(allowedTags, predefined) ==
    Filter(RequestedTags(allowedTags, predefined), Range(predefined), 1)

\* the normalization of the allowed tags against the server's list
EffectiveTags(allowedTags, predefined) ==
    LET kept == Filter(RequestedTags(allowedTags, predefined), Range(predefined), 1)
    IN IF kept = <<>> THEN predefined ELSE kept

\* suggested_tags without the membership test: every string of suggested_raw
SuggestedTagsUnfiltered(parsed_json, allowed_tags) ==
    LET raw == DictGet(parsed_json, K_suggestedTags, JArr(<<>>))
        suggested_raw == IF raw.t = "arr" THEN raw.a ELSE <<>>
        kept == Filter(suggested_raw, {t \in Range(suggested_raw) : t.t = "str"}, 1)
    IN [i \in 1..Len(kept) |-> kept[i].s]

\* suggested_tags: the strings of suggested_raw that are in allowed_tags
SuggestedTags(parsed_json, allowed_tags) ==
    LET raw == DictGet(parsed_json, K_suggestedTags, JArr(<<>>))
        suggested_raw == IF raw.t = "arr" THEN raw.a ELSE <<>>
        kept == Filter(suggested_raw,
                       {t \in Range(suggested_raw) : t.t = "str" /\ t.s \in Range(allowed_tags)}, 1)
    IN [i \in 1..Len(kept) |-> kept[i].s]

\* flags handed on as the model sent them: its keys, each coerced with bool()
SanitizedFlagsPassedThrough(parsed_json) ==
    LET raw == DictGet(parsed_json, K_flags, JObj(<<>>))
        flags_val == IF raw.t = "obj" THEN raw ELSE JObj(<<>>)
    IN [k \in {flags_val.o[i][1] : i \in 1..Len(flags_val.o)} |->
            Truthy(DictGet(flags_val, k, JBool(FALSE)))]

\* flags: the four recognized keys, each coerced with bool()
SanitizedFlags(parsed_json) ==
    LET raw == DictGet(parsed_json, K_flags, JObj(<<>>))
        flags_val == IF raw.t = "obj" THEN raw ELSE JObj(<<>>)
    IN [k \in Range(FlagKeys) |-> Truthy(DictGet(flags_val, k, JBool(FALSE)))]

\* the cut of raw_llm
RawLimit == 4000

\* the cut of the raw text in the detail of the non-JSON error
DetailLimit == 1000

\* the dict the handler returns on success
Decision(parsed_json, allowed_tags, text_out) ==
    [allowed |-> Truthy(DictGet(parsed_json, K_allowed, JBool(FALSE))),
     reason |-> DictGet(parsed_json, K_reason, JNull),
     flags |-> SanitizedFlags(parsed_json),
     suggestedTags |-> SuggestedTags(parsed_json, allowed_tags),
     raw_llm |-> Take(text_out.s, RawLimit)]

NoBody == [allowed |-> FALSE, reason |-> JNull, flags |-> [k \in {} |-> FALSE], suggestedTags |-> <<>>, raw_llm |-> <<>>]

\* an HTTP answer: the status, the detail of an HTTPException (what names its
\* message, text the raw text it quotes), the body of a 200
Answer(status, what, text, body) == [status |-> status, what |-> what, text |-> text, body |-> body]

HTTPException(status, what, text) == Answer(status, what, text, NoBody)

\* what the try block can raise: an HTTPException carrying its answer, or an
\* error of the backend call named by its type
RaisedHTTP(answer) == [type |-> "HTTPException", answer |-> answer]

RaisedError(type) == [type |-> type, answer |-> Answer(500, "unhandled", <<>>, NoBody)]

\* the except clauses without the one that re-raises an HTTPException: the
\* last clause wraps it like any other exception
OuterHandlersRewrapping(raised) ==
    CASE raised.type = "GoogleAPICallError" -> HTTPException(500, "Gemini API error", <<>>)
      [] raised.type = "GoogleAPIError" -> Answer(500, "Internal Server Error", <<>>, NoBody)
      [] OTHER -> HTTPException(500, "LLM check failed", <<>>)

\* the except clauses of the outer try. A GoogleAPIError that is no
\* GoogleAPICallError has no message attribute: the first handler raises in
\* its turn and the server answers its plain 500
OuterHandlers(raised) ==
    CASE raised.type = "GoogleAPICallError" -> HTTPException(500, "Gemini API error", <<>>)
      [] raised.type = "GoogleAPIError" -> Answer(500, "Internal Server Error", <<>>, NoBody)
      [] raised.type = "HTTPException" -> raised.answer
      [] OTHER -> HTTPException(500, "LLM check failed", <<>>)

\* response_model=CheckResponse: the returned dict is validated before it is
\* sent, and reason is Optional[str]. A list or an object is no string; the
\* backends of the model send no reason that is a number or a boolean
ResponseModelAccepts(body) == body.reason.t \in {"null", "str"}

\* the dict the handler returned goes through the response model: a dict it
\* rejects is answered with the plain 500 of the server
Validated(body) ==
    IF ResponseModelAccepts(body)
    THEN Answer(200, "ok", <<>>, body)
    ELSE Answer(500, "Internal Server Error", <<>>, NoBody)

\* the handler from the extracted text on
AfterGenerate(text_out, allowed_tags) ==
    LET r == IF text_out.k = "str"
             THEN clean_model_text_and_extract_json(text_out.s)
             ELSE RecoveryError("Empty or non-string model output")
    IN IF ~r.ok
       THEN OuterHandlers(RaisedHTTP(HTTPException(500, "LLM returned non-JSON output", Take(text_out.s, DetailLimit))))
       ELSE IF r.v.t # "obj"
       THEN OuterHandlers(RaisedHTTP(HTTPException(500, "LLM returned JSON that is not an object", <<>>)))
       ELSE Validated(Decision(r.v, allowed_tags, text_out))

\* --------------------------------------------------------------- inputs

\* the longest allowedTags list a request of the model carries
MaxAllowedTags == 2

\* the most parts a content list of the model holds
MaxParts == 2

\* the longest of the short texts enumerated in full
MaxLen == 3

BoundedSeqs(S, n) == UNION {[1..k -> S] : k \in 0..n}

\* the tags a request of the model can name
TagUniverse == {T_Wifi, T_Lab}

\* the allowedTags field of CheckRequest: None, or a list of strings
AllowedTagsValues ==
    {[given |-> FALSE, tags |-> <<>>]}
        \cup {[given |-> TRUE, tags |-> t] : t \in BoundedSeqs(TagUniverse, MaxAllowedTags)}

\* CheckRequest, without the description: imageUrl says whether a URL is given
Requests == [imageUrl : BOOLEAN, allowedTags : AllowedTagsValues]

\* json.dumps of the elements of a list from element i on
RECURSIVE Dumps(_), DumpElements(_, _), DumpMembers(_, _), DumpChars(_, _)
DumpChars(chars, i) ==
    IF i > Len(chars) THEN <<>>
    ELSE (IF chars[i] \in {QUOTE, BSL} THEN <<BSL, chars[i]>> ELSE <<chars[i]>>) \o DumpChars(chars, i + 1)

DumpElements(elems, i) ==
    IF i > Len(elems) THEN <<>>
    ELSE (IF i > 1 THEN <<",", " ">> ELSE <<>>) \o Dumps(elems[i]) \o DumpElements(elems, i + 1)

DumpMembers(members, i) ==
    IF i > Len(members) THEN <<>>
    ELSE (IF i > 1 THEN <<",", " ">> ELSE <<>>)
         \o <<QUOTE>> \o DumpChars(members[i][1], 1) \o <<QUOTE, ":", " ">>
         \o Dumps(members[i][2]) \o DumpMembers(members, i + 1)

\* json.dumps(v): the text a backend that answers v as JSON sends
Dumps(v) ==
    CASE v.t = "null" -> <<"n", "u", "l", "l">>
      [] v.t = "bool" -> IF v.b THEN <<"t", "r", "u", "e">> ELSE <<"f", "a", "l", "s", "e">>
      [] v.t = "num" -> v.s
      [] v.t = "str" -> <<QUOTE>> \o DumpChars(v.s, 1) \o <<QUOTE>>
      [] v.t = "arr" -> <<"[">> \o DumpElements(v.a, 1) \o <<"]">>
      [] v.t = "obj" -> <<"{">> \o DumpMembers(v.o, 1) \o <<"}">>

J0 == JNum(<<"0">>)

J1 == JNum(<<"1">>)

\* a member of a decision object, or no member at all
Member(key, value) == <<<<key, value>>>>

NoMember == <<>>

\* the shapes of "flags" a model answer can carry: missing, no object, empty,
\* some keys, all keys with values that are no booleans, extra keys
FlagsShapes ==
    {NoMember,
     Member(K_flags, J1),
     Member(K_flags, JObj(<<>>)),
     Member(K_flags, JObj(<<<<K_spam, JBool(TRUE)>>>>)),
     Member(K_flags, JObj(<<<<K_inappropriate, JStr(<<"y">>)>>, <<K_spam, J0>>,
                            <<K_advertisement, JNull>>, <<K_mismatch, JArr(<<J0>>)>>>>)),
     Member(K_flags, JObj(<<<<K_mismatch, JBool(TRUE)>>, <<T_Lab, JBool(TRUE)>>,
                            <<K_spam, JBool(FALSE)>>>>))}

\* the shapes of "suggestedTags": missing, no list, empty, known tags, unknown
\* tags, duplicates, elements that are no strings
SuggestedShapes ==
    {NoMember,
     Member(K_suggestedTags, JStr(T_Wifi)),
     Member(K_suggestedTags, JArr(<<>>)),
     Member(K_suggestedTags, JArr(<<JStr(T_Wifi)>>)),
     Member(K_suggestedTags, JArr(<<JStr(T_Lab), JStr(T_Wifi), JStr(T_Wifi)>>)),
     Member(K_suggestedTags, JArr(<<J1, JStr(T_Other), JNull, JStr(K_spam), JArr(<<JStr(T_Wifi)>>)>>))}

AllowedShapes ==
    {NoMember,
     Member(K_allowed, JBool(TRUE)),
     Member(K_allowed, J0) \o Member(K_reason, JStr(K_spam)),
     Member(K_allowed, JBool(TRUE)) \o Member(K_reason, JArr(<<>>))}

\* the decision objects a backend of the model answers: every shape of flags
\* with every shape of suggestedTags, and every shape of allowed
DecisionObjects ==
    {JObj(Member(K_allowed, JBool(TRUE)) \o f \o t) : f \in FlagsShapes, t \in SuggestedShapes}
        \cup {JObj(a \o Member(K_flags, JObj(<<>>))) : a \in AllowedShapes}

Prose == <<"n", "o">>

TXT_simple == <<"{", QUOTE, "k", QUOTE, ":", " ", "1", "}">>

TXT_nested == <<"{", QUOTE, "k", QUOTE, ":", " ", "{", "}", "}">>

\* a valid JSON object whose string value holds an escaped quote
TXT_escaped_quote == <<"{", QUOTE, "k", QUOTE, ":", " ", QUOTE, BSL, QUOTE, QUOTE, "}">>

\* a valid JSON object whose string value holds an escaped backslash before n
TXT_escaped_backslash == <<"{", QUOTE, "k", QUOTE, ":", " ", QUOTE, BSL, BSL, "n", QUOTE, "}">>

\* a JSON object sent as a JSON string: quoted, its quotes escaped
TXT_quoted == <<QUOTE, "{", BSL, QUOTE, "k", BSL, QUOTE, ":", " ", "1", "}", QUOTE>>

\* the same with doubled backslashes before n, as in the comment of stage 2
TXT_double_escaped == <<QUOTE, "{", BSL, BSL, "n", BSL, QUOTE, "k", BSL, QUOTE, ":", " ", "1", BSL, BSL, "n", "}", QUOTE>>

TXT_entities == <<"n", "o", " ", "{", "&", "q", "u", "o", "t", ";", "k", "&", "q", "u", "o", "t", ";", ":", " ", "1", "}", " ", "n", "o">>

TXT_fenced_scalar == <<TICK, TICK, TICK, "1", TICK, TICK, TICK>>

TXT_escaped_scalar == <<BSL, QUOTE, BSL, QUOTE, "k", BSL, QUOTE, BSL, QUOTE>>

TXT_trailing_backslash == <<"n", "o", BSL, QUOTE, BSL>>

TXT_array == <<"[", "1", "]">>

\* the decision object of a well-behaved backend: flags is a nested object
TXT_decision ==
    Dumps(JObj(Member(K_allowed, JBool(TRUE))
               \o Member(K_flags, JObj(<<<<K_spam, JBool(FALSE)>>>>))
               \o Member(K_suggestedTags, JArr(<<JStr(T_Wifi)>>))))

\* prose longer than the cut of the error detail
TXT_long == [i \in 1..(DetailLimit + 1) |-> "k"]

Fenced(text) == FENCE \o JSONTAG \o <<"\n">> \o text \o <<"\n">> \o FENCE

InProse(text) == Prose \o <<" ">> \o text \o <<" ">> \o Prose

\* the texts that are no plain decision object: wrapped, escaped, broken
SpecialTexts ==
    {TXT_simple, TXT_nested, TXT_escaped_quote, TXT_escaped_backslash, TXT_quoted,
     TXT_double_escaped, TXT_entities, TXT_fenced_scalar, TXT_escaped_scalar,
     TXT_trailing_backslash, TXT_array, TXT_long, Prose,
     InProse(TXT_simple), InProse(TXT_nested), InProse(TXT_decision), Fenced(TXT_simple), Fenced(TXT_nested),
     Fenced(InProse(TXT_simple)), InProse(Fenced(TXT_quoted)), <<" ">>}

\* the texts a backend of the model answers with
ModelTexts == {Dumps(d) : d \in DecisionObjects} \cup SpecialTexts

ShortAlphabet == {"{", "}", QUOTE, BSL, "1", "k", " ", TICK, ":", ","}

\* every text over ShortAlphabet of at most MaxLen characters
ShortTexts == BoundedSeqs(ShortAlphabet, MaxLen)

\* the texts the recovery function is run on
RecoverTexts == (ShortTexts \ {<<>>}) \cup SpecialTexts \cup {Fenced(t) : t \in SpecialTexts \ {TXT_long}}

EmptyResponse ==
    [candidates |-> NoValue, outputs |-> NoValue, response |-> NoValue,
     output |-> NoValue, str |-> StrValue(<<"<", ">">>)]

Candidate(text) == [text |-> text]

Part(isdict, text, plain_text, content) ==
    [isdict |-> isdict, text |-> text, plain_text |-> plain_text, content |-> content]

Output(content, str) == [content |-> content, str |-> str]

\* the responses of the model that carry the text t, one for each shape
ResponsesWith(t) ==
    {[EmptyResponse EXCEPT !.candidates = ListValue(<<Candidate(StrValue(t))>>)],
     [EmptyResponse EXCEPT !.outputs =
         ListValue(<<Output(ListValue(<<Part(TRUE, NoValue, StrValue(t), NoValue)>>), StrValue(<<"o">>))>>)],
     [EmptyResponse EXCEPT !.output = StrValue(t)],
     [EmptyResponse EXCEPT !.str = StrValue(t)]}

\* the responses generate_content returns in the endpoint model: a decision
\* object as the text of the first candidate, the other texts as str(response),
\* four texts in every shape
Responses ==
    UNION {ResponsesWith(t) : t \in {Prose, TXT_simple, TXT_fenced_scalar, Dumps(JObj(<<>>))}}
        \cup {[EmptyResponse EXCEPT !.str = StrValue(t)] : t \in SpecialTexts}
        \cup {[EmptyResponse EXCEPT !.candidates = ListValue(<<Candidate(StrValue(Dumps(d)))>>)] :
                  d \in DecisionObjects}
        \cup {[EmptyResponse EXCEPT !.str = StrValue(<<>>)],
              [EmptyResponse EXCEPT !.candidates = ListValue(<<Candidate(ObjValue(<<"1">>))>>)]}

\* what an attribute of a response can hold when the extractor is run alone
TextValues == {NoValue, StrValue(<<>>), StrValue(<<" ">>), StrValue(<<"a">>), ObjValue(<<"1">>), Raises}

PartShapes ==
    {Part(TRUE, StrValue(<<" ">>), StrValue(<<"p">>), NoValue),
     Part(TRUE, ObjValue(<<"1">>), NoValue, StrValue(<<"c">>)),
     Part(TRUE, NoValue, NoValue, NoValue),
     Part(FALSE, StrValue(<<" ">>), StrValue(<<"p">>), NoValue),
     Part(FALSE, NoValue, StrValue(<<"q">>), NoValue),
     Part(FALSE, Raises, NoValue, NoValue)}

ContentShapes ==
    {NoValue, ObjValue(<<"1">>), Raises} \cup {ListValue(ps) : ps \in BoundedSeqs(PartShapes, MaxParts)}

OutputShapes == {Output(c, r) : c \in ContentShapes, r \in {StrValue(<<>>), StrValue(<<"o">>), Raises}}

\* the response shapes the extractor is run on
ResponseShapes ==
    [candidates : {NoValue, Raises, ListValue(<<>>), ObjValue(<<"1">>)}
                      \cup {ListValue(<<Candidate(t)>>) : t \in TextValues},
     outputs : {NoValue, Raises, ListValue(<<>>)} \cup {ListValue(<<o>>) : o \in OutputShapes},
     response : {NoValue, StrValue(<<"r">>), Raises},
     output : {NoValue, ObjValue(<<>>), StrValue(<<"s">>)},
     str : {StrValue(<<>>), StrValue(<<"w">>)}]

\* ------------------------------------------------------------- endpoint

\* the requests in flight on the one event loop of the server
Reqs == {"A", "B"}

NoRequest == [imageUrl |-> FALSE, allowedTags |-> [given |-> FALSE, tags |-> <<>>]]

\* what requests.get followed by raise_for_status comes to: an exception of
\* the transport, or a final response with its status code
NoFetch == [kind |-> "none", status |-> 0]

FetchOutcomes ==
    {[kind |-> "ConnectionError", status |-> 0], [kind |-> "Timeout", status |-> 0]}
        \cup {[kind |-> "response", status |-> c] : c \in {200, 304, 404, 500}}

\* Response.raise_for_status raises for a client or server error status
raise_for_status(status) == 400 <= status /\ status < 600

\* the try block around the fetch: does it end in the except clause
FetchFails(outcome) == outcome.kind # "response" \/ raise_for_status(outcome.status)

\* the errors generate_content can raise, by the except clause that tells them apart
GenerateErrors == {"TypeError", "GoogleAPICallError", "GoogleAPIError", "Exception"}

\* a bare except around the first generate_content call
CaughtForFallbackAny(error) == error \in GenerateErrors

\* except TypeError, around the first generate_content call
CaughtForFallback(error) == error = "TypeError"

VARIABLES
    GENAI_CONFIGURED,   \* the process-wide flag set at startup
    HAS_MODEL_CLASS,    \* hasattr(genai, "GenerativeModel")
    PREDEFINED_TAGS,    \* the process-wide tag list
    loop,               \* the request whose handler holds the event loop, or "none"
    pc,                 \* where each request is
    req,                \* the body of each request being handled
    allowed_tags,       \* the local allowed_tags of each handler
    fetched,            \* the outcome of the image fetch of each handler
    calls,              \* the generate_content calls each handler has made
    first_error,        \* what the first generate_content call raised
    sent,               \* the answer the event loop is writing, with what led to it
    text,               \* recovery alone: the text given
    stage,              \* recovery alone: the stage reached
    cur,                \* recovery alone: the local s
    result,             \* recovery alone: what the function returned or raised
    response,           \* extraction alone: the response given
    tried,              \* extraction alone: the last strategy tried
    extracted           \* extraction alone: what the function returned

endpointVars == <<GENAI_CONFIGURED, HAS_MODEL_CLASS, PREDEFINED_TAGS, loop, pc, req,
                  allowed_tags, fetched, calls, first_error, sent>>

recoverVars == <<text, stage, cur, result>>

extractVars == <<response, tried, extracted>>

vars == <<endpointVars, recoverVars, extractVars>>

NotSent ==
    [to |-> "none", answer |-> Answer(0, "none", <<>>, NoBody), imageUrl |-> FALSE,
     allowed_tags |-> <<>>, fetched |-> NoFetch, calls |-> 0, first_error |-> "none",
     text_out |-> NoValue]

NoResult == [ok |-> FALSE, v |-> JNull, err |-> "pending"]

RecoverIdle == text = <<>> /\ stage = "off" /\ cur = <<>> /\ result = NoResult

ExtractIdle == response = EmptyResponse /\ tried = 0 /\ extracted = NoValue

EndpointIdle ==
    /\ GENAI_CONFIGURED = FALSE
    /\ HAS_MODEL_CLASS = FALSE
    /\ PREDEFINED_TAGS = DEFAULT_TAGS
    /\ loop = "none"
    /\ pc = [r \in Reqs |-> "idle"]
    /\ req = [r \in Reqs |-> NoRequest]
    /\ allowed_tags = [r \in Reqs |-> <<>>]
    /\ fetched = [r \in Reqs |-> NoFetch]
    /\ calls = [r \in Reqs |-> 0]
    /\ first_error = [r \in Reqs |-> "none"]
    /\ sent = NotSent

\* the process after startup: configured or not, with one of the tag lists
Init ==
    /\ GENAI_CONFIGURED \in BOOLEAN
    /\ HAS_MODEL_CLASS \in BOOLEAN
    /\ PREDEFINED_TAGS \in TagLists
    /\ loop = "none"
    /\ pc = [r \in Reqs |-> "idle"]
    /\ req = [r \in Reqs |-> NoRequest]
    /\ allowed_tags = [r \in Reqs |-> <<>>]
    /\ fetched = [r \in Reqs |-> NoFetch]
    /\ calls = [r \in Reqs |-> 0]
    /\ first_error = [r \in Reqs |-> "none"]
    /\ sent = NotSent
    /\ RecoverIdle
    /\ ExtractIdle

\* the handler of r goes on to pc_, holding the event loop
Continue(r, pc_, request, tags, fetch, ncalls, error) ==
    /\ loop' = r
    /\ pc' = [pc EXCEPT ![r] = pc_]
    /\ req' = [req EXCEPT ![r] = request]
    /\ allowed_tags' = [allowed_tags EXCEPT ![r] = tags]
    /\ fetched' = [fetched EXCEPT ![r] = fetch]
    /\ calls' = [calls EXCEPT ![r] = ncalls]
    /\ first_error' = [first_error EXCEPT ![r] = error]
    /\ sent' = NotSent

\* the handler of r ends with answer: its locals go, and the event loop has
\* the answer to write
Finish(r, request, tags, fetch, ncalls, error, text_out, answer) ==
    /\ loop' = r
    /\ pc' = [pc EXCEPT ![r] = "responding"]
    /\ req' = [req EXCEPT ![r] = NoRequest]
    /\ allowed_tags' = [allowed_tags EXCEPT ![r] = <<>>]
    /\ fetched' = [fetched EXCEPT ![r] = NoFetch]
    /\ calls' = [calls EXCEPT ![r] = 0]
    /\ first_error' = [first_error EXCEPT ![r] = "none"]
    /\ sent' = [to |-> r, answer |-> answer, imageUrl |-> request.imageUrl, allowed_tags |-> tags,
                fetched |-> fetch, calls |-> ncalls, first_error |-> error,
                text_out |-> text_out]

\* the handler enters the outer try: the hasattr test for GenerativeModel, then the
\* first generate_content call is under way
EnterTry(r, request, tags, fetch) ==
    IF ~HAS_MODEL_CLASS
    THEN Finish(r, request, tags, fetch, 0, "none", NoValue, OuterHandlers(RaisedError("RuntimeError")))
    ELSE Continue(r, "generating", request, tags, fetch, 1, "none")

\* a client sends a request: it waits for the event loop
Arrive(r) ==
    /\ pc[r] = "idle"
    /\ pc' = [pc EXCEPT ![r] = "admitted"]
    /\ UNCHANGED <<GENAI_CONFIGURED, HAS_MODEL_CLASS, PREDEFINED_TAGS, loop, req,
                   allowed_tags, fetched, calls, first_error, sent>>
    /\ UNCHANGED <<recoverVars, extractVars>>

\* the event loop starts the handler of r: it runs to its first external call
Begin(r) ==
    /\ pc[r] = "admitted"
    /\ loop = "none"
    /\ \E request \in Requests :
           IF ~GENAI_CONFIGURED
           THEN Finish(r, request, <<>>, NoFetch, 0, "none", NoValue,
                       HTTPException(500, "LLM backend not configured", <<>>))
           ELSE LET tags == EffectiveTags(request.allowedTags, PREDEFINED_TAGS) IN
                IF request.imageUrl
                THEN Continue(r, "fetching", request, tags, NoFetch, 0, "none")
                ELSE EnterTry(r, request, tags, NoFetch)
    /\ UNCHANGED <<GENAI_CONFIGURED, HAS_MODEL_CLASS, PREDEFINED_TAGS>>
    /\ UNCHANGED <<recoverVars, extractVars>>

\* requests.get returns or raises: the handler, which held the loop, goes on
FetchReturn(r) ==
    /\ pc[r] = "fetching"
    /\ loop = r
    /\ \E outcome \in FetchOutcomes :
           IF FetchFails(outcome)
           THEN Finish(r, req[r], allowed_tags[r], outcome, 0, "none", NoValue,
                       HTTPException(400, "Could not fetch image for validation", <<>>))
           ELSE EnterTry(r, req[r], allowed_tags[r], outcome)
    /\ UNCHANGED <<GENAI_CONFIGURED, HAS_MODEL_CLASS, PREDEFINED_TAGS>>
    /\ UNCHANGED <<recoverVars, extractVars>>

\* the event loop has written the answer of r and is free again
Respond(r) ==
    /\ pc[r] = "responding"
    /\ loop = r
    /\ loop' = "none"
    /\ pc' = [pc EXCEPT ![r] = "idle"]
    /\ sent' = NotSent
    /\ UNCHANGED <<GENAI_CONFIGURED, HAS_MODEL_CLASS, PREDEFINED_TAGS, req, allowed_tags,
                   fetched, calls, first_error>>
    /\ UNCHANGED <<recoverVars, extractVars>>

\* generate_content returned resp: the rest of the handler
Answered(r, resp) ==
    LET text_out == extract_text_from_response(resp)
    IN Finish(r, req[r], allowed_tags[r], fetched[r], calls[r], first_error[r], text_out,
              AfterGenerate(text_out, allowed_tags[r]))

\* generate_content raised error, and no handler of the call caught it
Failed(r, error, first) ==
    Finish(r, req[r], allowed_tags[r], fetched[r], calls[r], first, NoValue,
           OuterHandlers(RaisedError(error)))

\* the first generate_content call returns or raises
GenerateReturn(r) ==
    /\ pc[r] = "generating"
    /\ loop = r
    /\ \/ \E resp \in Responses : Answered(r, resp)
       \/ \E error \in GenerateErrors :
              IF CaughtForFallback(error)
              THEN Continue(r, "fallback", req[r], allowed_tags[r], fetched[r], calls[r] + 1, error)
              ELSE Failed(r, error, error)
    /\ UNCHANGED <<GENAI_CONFIGURED, HAS_MODEL_CLASS, PREDEFINED_TAGS>>
    /\ UNCHANGED <<recoverVars, extractVars>>

\* the generate_content call of the alternative signature returns or raises
FallbackReturn(r) ==
    /\ pc[r] = "fallback"
    /\ loop = r
    /\ \/ \E resp \in Responses : Answered(r, resp)
       \/ \E error \in GenerateErrors : Failed(r, error, first_error[r])
    /\ UNCHANGED <<GENAI_CONFIGURED, HAS_MODEL_CLASS, PREDEFINED_TAGS>>
    /\ UNCHANGED <<recoverVars, extractVars>>

Next ==
    \E r \in Reqs :
        \/ Arrive(r)
        \/ Begin(r)
        \/ FetchReturn(r)
        \/ GenerateReturn(r)
        \/ FallbackReturn(r)
        \/ Respond(r)

\* the endpoint: requests arriving at one process with one event loop
Spec == Init /\ [][Next]_vars

\* ------------------------------------------- properties of the endpoint

\* the handler of r has computed allowed_tags and not answered yet
Running(r) == pc[r] \in {"fetching", "generating", "fallback"}

\* the handler of r waits for requests.get or generate_content
InExternalCall(r) == pc[r] \in {"fetching", "generating", "fallback"}

\* a step of the handler of r
StepOf(r) == Begin(r) \/ FetchReturn(r) \/ GenerateReturn(r) \/ FallbackReturn(r) \/ Respond(r)

\* the object a 200 answer was made from
ParsedOf(text_out) == clean_model_text_and_extract_json(text_out.s).v

\* C1: every element of the suggestedTags of a 200 response is a member of
\* the effective tag set computed for the same request
SuggestedTagsWithinEffectiveSet ==
    sent.answer.status = 200 =>
        \A i \in 1..Len(sent.answer.body.suggestedTags) :
            sent.answer.body.suggestedTags[i] \in Range(sent.allowed_tags)

\* a 200 response to a request restricted to Lab whose model text also
\* suggested Wifi: Lab is returned, Wifi is dropped
UnknownTagDropped ==
    /\ sent.answer.status = 200
    /\ sent.allowed_tags = <<T_Lab>>
    /\ Contains(sent.text_out.s, T_Wifi)
    /\ sent.answer.body.suggestedTags = <<T_Lab>>

\* C6: the effective tag set is the intersection of allowedTags with the
\* process-wide set when allowedTags is given and the intersection is not
\* empty, the full process-wide set otherwise, and always a subset of it
EffectiveTagSetIsIntersectionOrAll ==
    \A r \in Reqs :
        Running(r) =>
            LET given == req[r].allowedTags
                both == Range(given.tags) \cap Range(PREDEFINED_TAGS)
            IN /\ Range(allowed_tags[r]) =
                      IF given.given /\ both # {} THEN both ELSE Range(PREDEFINED_TAGS)
               /\ Range(allowed_tags[r]) \subseteq Range(PREDEFINED_TAGS)

\* a request whose allowedTags has no element in the process-wide set
FallbackToAllTags ==
    \E r \in Reqs :
        /\ Running(r)
        /\ PREDEFINED_TAGS = <<T_Lab, T_Other>>
        /\ req[r].allowedTags = [given |-> TRUE, tags |-> <<T_Wifi>>]
        /\ allowed_tags[r] = PREDEFINED_TAGS

\* C7: the flags of a 200 response has exactly the four keys inappropriate,
\* spam, advertisement and mismatch, each a boolean, false for every key
\* that is missing from the flags of the recovered object
FlagsHasFourBooleans ==
    sent.answer.status = 200 =>
        LET flags == sent.answer.body.flags
            given == DictGet(ParsedOf(sent.text_out), K_flags, JObj(<<>>))
        IN /\ DOMAIN flags = {K_inappropriate, K_spam, K_advertisement, K_mismatch}
           /\ \A k \in DOMAIN flags :
                  /\ flags[k] \in BOOLEAN
                  /\ (given.t # "obj" \/ ~HasKey(given, k)) => flags[k] = FALSE

\* a 200 response made from flags with an extra key and two keys missing
ExtraFlagDroppedMissingFalse ==
    /\ sent.answer.status = 200
    /\ HasKey(DictGet(ParsedOf(sent.text_out), K_flags, JObj(<<>>)), T_Lab)
    /\ sent.answer.body.flags[K_mismatch] = TRUE
    /\ sent.answer.body.flags[K_inappropriate] = FALSE

\* C8, as stated: every request invokes generate_content at most once
AtMostOneGenerateCall ==
    /\ \A r \in Reqs : calls[r] <= 1
    /\ sent.calls <= 1

\* C8, amended: a request makes at most two generate_content calls, the second
\* only after the first raised TypeError; after any other error of the first
\* call, and after any error of the second, the failure is answered with no
\* further call
SecondCallOnlyAfterTypeError ==
    /\ \A r \in Reqs :
           /\ calls[r] <= 2
           /\ calls[r] = 2 => first_error[r] = "TypeError" /\ pc[r] = "fallback"
           /\ pc[r] = "fallback" => calls[r] = 2
    /\ sent.calls <= 2
    /\ sent.calls = 2 => sent.first_error = "TypeError"
    /\ sent.first_error \notin {"none", "TypeError"} => sent.calls = 1 /\ sent.answer.status = 500

\* a request answered 200 by the second call
AnsweredBySecondCall ==
    /\ sent.calls = 2
    /\ sent.first_error = "TypeError"
    /\ sent.answer.status = 200

\* C3: while a request waits in an external call, some step of every other
\* admitted request is enabled
NoHeadOfLineBlocking ==
    \A a \in Reqs : \A b \in Reqs \ {a} :
        InExternalCall(a) /\ pc[b] = "admitted" => ENABLED StepOf(b)

\* the fetch of a request with an imageUrl failed as the specification counts it:
\* unreachable, timed out, or a status outside 200..299
FetchFailedAsSpecified(answered) ==
    /\ answered.imageUrl
    /\ \/ answered.fetched.kind \in {"ConnectionError", "Timeout"}
       \/ /\ answered.fetched.kind = "response"
          /\ ~(200 <= answered.fetched.status /\ answered.fetched.status < 300)

\* C4: with the backend configured, the answer is 400 exactly when the fetch
\* of an imageUrl failed (unreachable, timeout, non-2xx); then generate_content
\* was never called, and an answer after a call is never 400
BadRequestExactlyOnFetchFailure ==
    (GENAI_CONFIGURED /\ sent.to # "none") =>
        /\ sent.answer.status = 400 <=> FetchFailedAsSpecified(sent)
        /\ FetchFailedAsSpecified(sent) => sent.calls = 0
        /\ sent.calls > 0 => sent.answer.status \in {200, 500}

\* the answer to a text that is the non-JSON error quoting the first
\* DetailLimit characters of the text
NonJsonAnswer(answer, chars) ==
    /\ answer.status = 500
    /\ answer.what = "LLM returned non-JSON output"
    /\ answer.text = Take(chars, DetailLimit)

\* C5, as stated: a non-empty text with no opening brace that is not valid
\* JSON is answered 500 with the non-JSON detail quoting its first characters
BracelessTextIsNonJsonError ==
    (/\ sent.to # "none"
     /\ sent.text_out.k = "str"
     /\ sent.text_out.s # <<>>
     /\ ~Contains(sent.text_out.s, <<"{">>)
     /\ ~json_loads(sent.text_out.s).ok)
        => NonJsonAnswer(sent.answer, sent.text_out.s)

\* C5, amended: a non-empty text which, after the fence and escape stages,
\* has no opening brace and is not valid JSON is answered 500 with the
\* non-JSON detail quoting the first DetailLimit characters of the original
\* text; the outer handlers leave that answer as it is
NormalizedBracelessTextIsNonJsonError ==
    (/\ sent.to # "none"
     /\ sent.text_out.k = "str"
     /\ sent.text_out.s # <<>>
     /\ ~Contains(Normalized(sent.text_out.s), <<"{">>)
     /\ ~json_loads(Normalized(sent.text_out.s)).ok)
        => /\ ~clean_model_text_and_extract_json(sent.text_out.s).ok
           /\ NonJsonAnswer(sent.answer, sent.text_out.s)

\* the long prose answered with its first DetailLimit characters
LongProseTruncated ==
    /\ sent.text_out = StrValue(TXT_long)
    /\ sent.answer.status = 500
    /\ Len(sent.answer.text) = DetailLimit
    /\ Len(sent.text_out.s) > DetailLimit

\* ------------------------------------------------------- recovery alone

InitRecover ==
    /\ EndpointIdle
    /\ ExtractIdle
    /\ text \in RecoverTexts
    /\ stage = "start"
    /\ cur = <<>>
    /\ result = NoResult

\* stage 1: strip and fence
StripFence ==
    /\ stage = "start"
    /\ cur' = FenceStage(text)
    /\ stage' = "fenced"
    /\ UNCHANGED <<text, result, endpointVars, extractVars>>

\* stage 2: escape normalization
Unescape ==
    /\ stage = "fenced"
    /\ cur' = EscapeStage(cur)
    /\ stage' = "normalized"
    /\ UNCHANGED <<text, result, endpointVars, extractVars>>

\* stage 3: the direct parse returns, or the function goes on to the brace scan
DirectParse ==
    /\ stage = "normalized"
    /\ IF json_loads(cur).ok
       THEN stage' = "done" /\ result' = Recovered(json_loads(cur).v)
       ELSE stage' = "scan" /\ result' = result
    /\ UNCHANGED <<text, cur, endpointVars, extractVars>>

\* stage 4: the brace scan returns or raises
BraceScan ==
    /\ stage = "scan"
    /\ stage' = "done"
    /\ result' = BraceStage(cur)
    /\ UNCHANGED <<text, cur, endpointVars, extractVars>>

NextRecover == StripFence \/ Unescape \/ DirectParse \/ BraceScan

\* clean_model_text_and_extract_json run on each text of RecoverTexts
SpecRecover == InitRecover /\ [][NextRecover]_vars

\* the object texts that hold a nested object, and so two closing braces
NestedObjectTexts == {TXT_nested, TXT_decision}

\* C2: prose, one JSON object with a nested object, prose, with no fence and
\* no backslash: the function returns exactly the embedded outermost object
NestedObjectRecoveredFromProse ==
    \A t \in NestedObjectTexts :
        (stage = "done" /\ text = InProse(t)) => result = Recovered(json_loads(t).v)

\* C10: a text that is a valid JSON object on its own, with no fence and no
\* prose around it, comes back as exactly the object it parses to
ValidObjectTextRecoveredAsIs ==
    (/\ stage = "done"
     /\ text[1] = "{"
     /\ text[Len(text)] = "}"
     /\ json_loads(text).ok
     /\ json_loads(text).v.t = "obj")
        => result = Recovered(json_loads(text).v)

\* ----------------------------------------------------- extraction alone

InitExtract ==
    /\ EndpointIdle
    /\ RecoverIdle
    /\ response \in ResponseShapes
    /\ tried = 0
    /\ extracted = NoValue

\* the function has not returned yet
Extracting == extracted.k = "none"

\* strategy n is tried: it returns, or gives way to the next one
TryStrategy(n, outcome) ==
    /\ tried = n - 1
    /\ Extracting
    /\ tried' = n
    /\ extracted' = IF outcome.did = "return" THEN outcome.out ELSE extracted
    /\ UNCHANGED <<response, endpointVars, recoverVars>>

TryCandidates == TryStrategy(1, Strategy1(response))

TryOutputs == TryStrategy(2, Strategy2(response))

TryResponseAttr == TryStrategy(3, Strategy3(response))

Stringify == TryStrategy(4, Strategy4(response))

NextExtract == TryCandidates \/ TryOutputs \/ TryResponseAttr \/ Stringify

\* extract_text_from_response run on each response of ResponseShapes
SpecExtract == InitExtract /\ [][NextExtract]_vars

\* the first candidate of the response has a non-empty text
FirstCandidateHasText ==
    /\ response.candidates.k = "list"
    /\ Len(response.candidates.items) > 0
    /\ response.candidates.items[1].text.k = "str"
    /\ response.candidates.items[1].text.s # <<>>

\* C9: the strategies are tried in order and the first that succeeds returns:
\* a strategy before the last that ends the function has found a text that
\* is not empty (an absent attribute, an empty text or an exception leaves
\* the later strategies to be tried), and the non-empty text of a first
\* candidate is what the function returns
LowestSucceedingStrategyReturns ==
    ~Extracting =>
        /\ tried < 4 => extracted.s # <<>>
        /\ FirstCandidateHasText =>
               tried = 1 /\ extracted = response.candidates.items[1].text
====
